---- MODULE Spec2Model ----
(***************************************************************************)
(* A model of the zoltrajs/cli-builder argument parser and dispatcher.     *)
(*                                                                         *)
(*   ZoltraCLIParser  (src/src/parser.ts 4-250): parse, isOption,           *)
(*       parseOption, parseOptionValue, validateArgs, validateOptions and  *)
(*       the static lookup cache optionCache.                              *)
(*   ZoltraCLIBuilder (src/src/parser.ts 263-528): option, addCommand,      *)
(*       action, setInteractive and parse (the dispatcher).                *)
(*                                                                         *)
(* Tokens, option names and values are TLA+ strings; the two regular       *)
(* expressions of the parser are evaluated character by character.         *)
(* JavaScript values are tagged records [t, v]; an optional object (the    *)
(* result of Array.find, a cache entry) is a sequence of length 0 or 1.    *)
(***************************************************************************)
EXTENDS Integers, Sequences, FiniteSets, TLC

(***************************************************************************)
(* JavaScript values                                                       *)
(***************************************************************************)
Undefined == [t |-> "undefined", v |-> ""]
Str(s) == [t |-> "string", v |-> s]
Bool(b) == [t |-> "boolean", v |-> b]
Num(n) == [t |-> "number", v |-> n]
Arr(a) == [t |-> "array", v |-> a]

\* null / a found object, as Array.find(...) || null yields them
Null == <<>>
Some(o) == <<o>>

\* JavaScript truthiness of a tagged value
Truthy(x) ==
  CASE x.t = "undefined" -> FALSE
    [] x.t = "string" -> x.v # ""
    [] x.t = "boolean" -> x.v
    [] x.t = "number" -> x.v # 0
    [] OTHER -> TRUE

(***************************************************************************)
(* Characters                                                              *)
(***************************************************************************)
LowerLetters ==
  {"a", "b", "c", "d", "e", "f", "g", "h", "i", "j", "k", "l", "m",
   "n", "o", "p", "q", "r", "s", "t", "u", "v", "w", "x", "y", "z"}
UpperLetters ==
  {"A", "B", "C", "D", "E", "F", "G", "H", "I", "J", "K", "L", "M",
   "N", "O", "P", "Q", "R", "S", "T", "U", "V", "W", "X", "Y", "Z"}
Letters == LowerLetters \cup UpperLetters
Digits == {"0", "1", "2", "3", "4", "5", "6", "7", "8", "9"}
WhiteSpace == {" "}

CharAt(s, k) == SubSeq(s, k, k)
StartsWith(s, c) == Len(s) >= 1 /\ CharAt(s, 1) = c

UpperLowerPairs ==
  <<<<"A", "a">>, <<"B", "b">>, <<"C", "c">>, <<"D", "d">>, <<"E", "e">>,
    <<"F", "f">>, <<"G", "g">>, <<"H", "h">>, <<"I", "i">>, <<"J", "j">>,
    <<"K", "k">>, <<"L", "l">>, <<"M", "m">>, <<"N", "n">>, <<"O", "o">>,
    <<"P", "p">>, <<"Q", "q">>, <<"R", "r">>, <<"S", "s">>, <<"T", "t">>,
    <<"U", "u">>, <<"V", "v">>, <<"W", "w">>, <<"X", "x">>, <<"Y", "y">>,
    <<"Z", "z">>>>

LowerChar(c) ==
  IF c \in UpperLetters
  THEN (CHOOSE p \in {UpperLowerPairs[k] : k \in 1..Len(UpperLowerPairs)} :
          p[1] = c)[2]
  ELSE c

RECURSIVE ToLowerCase(_)
ToLowerCase(s) ==
  IF s = "" THEN "" ELSE LowerChar(CharAt(s, 1)) \o ToLowerCase(Tail(s))

\* String.prototype.trim
RECURSIVE TrimStart(_)
TrimStart(s) ==
  IF s # "" /\ CharAt(s, 1) \in WhiteSpace THEN TrimStart(Tail(s)) ELSE s

RECURSIVE TrimEnd(_)
TrimEnd(s) ==
  IF s # "" /\ CharAt(s, Len(s)) \in WhiteSpace
  THEN TrimEnd(SubSeq(s, 1, Len(s) - 1))
  ELSE s

Trim(s) == TrimEnd(TrimStart(s))

\* String.prototype.split(sep) for a one-character separator
RECURSIVE SplitFrom(_, _, _)
SplitFrom(s, sep, cur) ==
  IF s = "" THEN <<cur>>
  ELSE IF CharAt(s, 1) = sep
       THEN <<cur>> \o SplitFrom(Tail(s), sep, "")
       ELSE SplitFrom(Tail(s), sep, cur \o CharAt(s, 1))

Split(s, sep) == SplitFrom(s, sep, "")

\* Array.prototype.join
RECURSIVE Join(_, _)
Join(a, sep) ==
  IF Len(a) = 0 THEN ""
  ELSE IF Len(a) = 1 THEN a[1]
  ELSE a[1] \o sep \o Join(Tail(a), sep)

\* parseFloat on the decimal integer literals of the model: leading white
\* space, an optional sign, then the longest run of digits; no digit: NaN.
DigitVal(c) ==
  CASE c = "0" -> 0 [] c = "1" -> 1 [] c = "2" -> 2 [] c = "3" -> 3
    [] c = "4" -> 4 [] c = "5" -> 5 [] c = "6" -> 6 [] c = "7" -> 7
    [] c = "8" -> 8 [] c = "9" -> 9

RECURSIVE DigitRun(_, _, _)
DigitRun(s, acc, seen) ==
  IF s # "" /\ CharAt(s, 1) \in Digits
  THEN DigitRun(Tail(s), 10 * acc + DigitVal(CharAt(s, 1)), TRUE)
  ELSE [nan |-> ~seen, n |-> acc]

ParseFloat(s) ==
  LET body == TrimStart(s)
      neg == StartsWith(body, "-")
      signed == StartsWith(body, "-") \/ StartsWith(body, "+")
      r == DigitRun(IF signed THEN Tail(body) ELSE body, 0, FALSE)
  IN  [nan |-> r.nan, n |-> IF neg THEN 0 - r.n ELSE r.n]

(***************************************************************************)
(* Schema records (CLIOption, CLIArgument, CLICommand)                     *)
(***************************************************************************)
\* a CLIOption with only the mandatory fields set
Opt(name, alias, type) ==
  [name |-> name, alias |-> alias, type |-> type, required |-> FALSE,
   default |-> Undefined, choices |-> Undefined]

\* a CLIArgument
Arg(name, required, variadic) ==
  [name |-> name, required |-> required, variadic |-> variadic]

\* a CLICommand; handlers are identified by the command that owns them
Cmd(name, aliases, options, arguments) ==
  [name |-> name, aliases |-> aliases, options |-> options,
   arguments |-> arguments]

\* obj[key] = value on a Record<string, any>
SetKey(obj, key, value) ==
  [k \in DOMAIN obj \cup {key} |-> IF k = key THEN value ELSE obj[k]]

\* obj[key], undefined when the key is absent
GetKey(obj, key) == IF key \in DOMAIN obj THEN obj[key] ELSE Undefined

EmptyObject == [k \in {} |-> Undefined]

(***************************************************************************)
(* OPTION_REGEX: one or two dashes, a name (a letter, then letters,        *)
(* digits, "_" or "-"), then optionally "=" and a non-empty value.         *)
(* SHORT_OPTION_REGEX: one dash, then one or more letters or digits.       *)
(***************************************************************************)
IsNameChar(c) == c \in Letters \cup Digits \cup {"_", "-"}

\* index of the last character of the longest run [a-zA-Z0-9_-]* from p
RECURSIVE NameEnd(_, _)
NameEnd(s, p) ==
  IF p <= Len(s) /\ IsNameChar(CharAt(s, p)) THEN NameEnd(s, p + 1) ELSE p - 1

NoMatch == [matched |-> FALSE, name |-> "", value |-> Undefined]

\* the match with the name starting at index p (after one or two dashes)
OptionRegexAt(token, p) ==
  IF p <= Len(token) /\ CharAt(token, p) \in Letters
  THEN LET e == NameEnd(token, p) IN
       IF e = Len(token)
       THEN [matched |-> TRUE, name |-> SubSeq(token, p, e),
             value |-> Undefined]
       ELSE IF CharAt(token, e + 1) = "=" /\ e + 1 < Len(token)
            THEN [matched |-> TRUE, name |-> SubSeq(token, p, e),
                  value |-> Str(SubSeq(token, e + 2, Len(token)))]
            ELSE NoMatch
  ELSE NoMatch

OPTION_REGEX(token) ==
  IF StartsWith(token, "-")
  THEN IF Len(token) >= 2 /\ CharAt(token, 2) = "-"
          /\ OptionRegexAt(token, 3).matched
       THEN OptionRegexAt(token, 3)
       ELSE OptionRegexAt(token, 2)
  ELSE NoMatch

SHORT_OPTION_REGEX(token) ==
  IF /\ Len(token) >= 2
     /\ CharAt(token, 1) = "-"
     /\ \A k \in 2..Len(token) : CharAt(token, k) \in Letters \cup Digits
  THEN [matched |-> TRUE, name |-> SubSeq(token, 2, Len(token)),
        value |-> Undefined]
  ELSE NoMatch

isOption(token) == OPTION_REGEX(token).matched

\* tokens[index] of a JavaScript array (0-based), undefined out of range
TokenAt(tokens, index) ==
  IF index >= 0 /\ index < Len(tokens) THEN Str(tokens[index + 1])
  ELSE Undefined

\* nextToken && !this.isOption(nextToken)
IsValueToken(nextToken) == Truthy(nextToken) /\ ~isOption(nextToken.v)

InvalidFormat(token) ==
  [err |-> "Invalid option format: " \o token, name |-> "",
   value |-> Undefined, next |-> FALSE]

\* the value a flag without "=value" gets: the next token or true
ValueFromNext(name, tokens, index) ==
  LET nextToken == TokenAt(tokens, index + 1) IN
  IF IsValueToken(nextToken)
  THEN [err |-> "", name |-> name, value |-> nextToken, next |-> TRUE]
  ELSE [err |-> "", name |-> name, value |-> Bool(TRUE), next |-> FALSE]

\* next: the returned value is the token at index + 1
parseOption(token, tokens, index) ==
  LET longMatch == OPTION_REGEX(token)
      shortMatch == SHORT_OPTION_REGEX(token)
  IN  IF longMatch.matched
      THEN IF longMatch.name = "" THEN InvalidFormat(token)
           ELSE IF longMatch.value # Undefined
                THEN [err |-> "", name |-> longMatch.name,
                      value |-> longMatch.value, next |-> FALSE]
                ELSE ValueFromNext(longMatch.name, tokens, index)
      ELSE IF shortMatch.matched
           THEN IF shortMatch.name = "" THEN InvalidFormat(token)
                ELSE ValueFromNext(shortMatch.name, tokens, index)
           ELSE InvalidFormat(token)

(***************************************************************************)
(* The Value Coercer                                                       *)
(***************************************************************************)
Returned(val) == [err |-> "", val |-> val]
Thrown(msg) == [err |-> msg, val |-> Undefined]

RECURSIVE TrimAll(_)
TrimAll(items) ==
  IF Len(items) = 0 THEN <<>>
  ELSE <<Trim(Head(items))>> \o TrimAll(Tail(items))

Includes(a, x) == \E k \in 1..Len(a) : a[k] = x

parseOptionValue(value, option) ==
  IF value.t = "boolean" THEN Returned(value)
  ELSE CASE option.type = "number" ->
              LET num == ParseFloat(value.v) IN
              IF num.nan
              THEN Thrown("Option " \o option.name
                          \o " expects a number, got: " \o value.v)
              ELSE Returned(Num(num.n))
         [] option.type = "boolean" ->
              Returned(Bool(ToLowerCase(value.v) = "true" \/ value.v = "1"))
         [] option.type = "array" ->
              Returned(Arr(TrimAll(Split(value.v, ","))))
         [] OTHER ->
              IF option.choices # Undefined
                 /\ ~Includes(option.choices.v, value.v)
              THEN Thrown("Option " \o option.name \o " must be one of: "
                          \o Join(option.choices.v, ", "))
              ELSE Returned(value)

(***************************************************************************)
(* The Option Resolution Cache                                             *)
(***************************************************************************)
\* Variant: the key of a name lookup without the size of the schema.
NameKeyWithoutSize(name, options) == name \o ":"

\* the key of a name lookup and of a cluster alias lookup
NameKey(name, options) == name \o ":" \o ToString(Len(options))
AliasKey(shortOpt, options) ==
  "alias:" \o shortOpt \o ":" \o ToString(Len(options))

NameOrAliasIs(opt, name) == opt.name = name \/ opt.alias = Str(name)
AliasIs(opt, shortOpt) == opt.alias = Str(shortOpt)

\* options.find((opt) => opt.name === name || opt.alias === name) || null
RECURSIVE ScanNameOrAlias(_, _)
ScanNameOrAlias(options, name) ==
  IF Len(options) = 0 THEN Null
  ELSE IF NameOrAliasIs(Head(options), name) THEN Some(Head(options))
  ELSE ScanNameOrAlias(Tail(options), name)

\* options.find((opt) => opt.alias === shortOpt) || null
RECURSIVE ScanAlias(_, _)
ScanAlias(options, shortOpt) ==
  IF Len(options) = 0 THEN Null
  ELSE IF AliasIs(Head(options), shortOpt) THEN Some(Head(options))
  ELSE ScanAlias(Tail(options), shortOpt)

\* optionCache.get(key); on undefined the scan result is stored under key.
\* The record keeps what a direct scan of this call's schema returns.
Lookup(cache, key, scan) ==
  IF key \in DOMAIN cache
  THEN [option |-> cache[key], cache |-> cache,
        log |-> [key |-> key, got |-> cache[key], scan |-> scan,
                 hit |-> TRUE]]
  ELSE [option |-> scan, cache |-> SetKey(cache, key, scan),
        log |-> [key |-> key, got |-> scan, scan |-> scan, hit |-> FALSE]]

(***************************************************************************)
(* ZoltraCLIParser.parse                                                   *)
(*                                                                         *)
(* A frame is the state of one call: the cursor i (0-based), the fields    *)
(* of parsed, the cache, and two histories: kinds[k], the ways token k was *)
(* classified, and lookups, the cache lookups made so far.                 *)
(***************************************************************************)
\* parsed.options seeded with the declared defaults
RECURSIVE SeedDefaults(_, _)
SeedDefaults(options, obj) ==
  IF Len(options) = 0 THEN obj
  ELSE SeedDefaults(Tail(options),
                    IF Head(options).default # Undefined
                    THEN SetKey(obj, Head(options).name,
                                Head(options).default)
                    ELSE obj)

\* argv.slice(2)
Slice2(argv) == SubSeq(argv, 3, Len(argv))

Mark(kinds, index, kind) ==
  IF index >= 0 /\ index < Len(kinds)
  THEN [kinds EXCEPT ![index + 1] = @ \cup {kind}]
  ELSE kinds

ParseStart(argv, options, cache) ==
  [i |-> 0, command |-> <<>>, options |-> SeedDefaults(options, EmptyObject),
   args |-> <<>>, cache |-> cache,
   kinds |-> [k \in 1..Len(Slice2(argv)) |-> {}], lookups |-> <<>>,
   err |-> ""]

\* if (this.isOption(token)) { ... i++ }
StepOption(f, tokens, options) ==
  LET token == tokens[f.i + 1]
      po == parseOption(token, tokens, f.i)
      lk == Lookup(f.cache, NameKey(po.name, options),
                   ScanNameOrAlias(options, po.name))
      pv == parseOptionValue(po.value, lk.option[1])
  IN  IF po.err # "" THEN [f EXCEPT !.err = po.err]
      ELSE IF lk.option = Null
      THEN [f EXCEPT !.cache = lk.cache,
                     !.lookups = Append(@, lk.log),
                     !.kinds = Mark(@, f.i, "flag"),
                     !.i = @ + 1]
      ELSE IF pv.err # ""
      THEN [f EXCEPT !.cache = lk.cache,
                     !.lookups = Append(@, lk.log),
                     !.err = pv.err]
      ELSE [f EXCEPT !.cache = lk.cache,
                     !.lookups = Append(@, lk.log),
                     !.options = SetKey(@, lk.option[1].name, pv.val),
                     !.kinds = IF po.next
                               THEN Mark(Mark(@, f.i, "flag"), f.i + 1,
                                         "value")
                               ELSE Mark(@, f.i, "flag"),
                     !.i = @ + 1]

\* the body of  for (const shortOpt of shortOpts)  for the rest of shortOpts
RECURSIVE ClusterLoop(_, _, _, _)
ClusterLoop(f, shortOpts, tokens, options) ==
  IF shortOpts = "" THEN f
  ELSE LET shortOpt == CharAt(shortOpts, 1)
           lk == Lookup(f.cache, AliasKey(shortOpt, options),
                        ScanAlias(options, shortOpt))
           nextToken == TokenAt(tokens, f.i + 1)
           takesNext == lk.option[1].type # "boolean"
                        /\ IsValueToken(nextToken)
           g == [f EXCEPT !.cache = lk.cache,
                          !.lookups = Append(@, lk.log)]
       IN  ClusterLoop(
             IF lk.option = Null THEN g
             ELSE [g EXCEPT
                     !.options = SetKey(@, lk.option[1].name,
                                        IF takesNext THEN nextToken
                                        ELSE Bool(TRUE)),
                     !.kinds = IF takesNext THEN Mark(@, f.i + 1, "value")
                               ELSE @],
             Tail(shortOpts), tokens, options)

\* else if (token.startsWith("-")) { ... i += shortOpts.length > 1 ? 1 : 2 }
StepCluster(f, tokens, options) ==
  LET shortOpts == Tail(tokens[f.i + 1])
      g == ClusterLoop(f, shortOpts, tokens, options)
  IN  [g EXCEPT !.kinds = Mark(@, f.i, "cluster"),
                !.i = @ + (IF Len(shortOpts) > 1 THEN 1 ELSE 2)]

\* the plain branch with the test  !parsed.args.length  alone
StepPlainWhileNoArgs(f, tokens) ==
  LET token == tokens[f.i + 1] IN
  IF Len(f.args) = 0
  THEN [f EXCEPT !.command = Append(@, token),
                 !.kinds = Mark(@, f.i, "command"),
                 !.i = @ + 1]
  ELSE [f EXCEPT !.args = Append(@, token),
                 !.kinds = Mark(@, f.i, "positional"),
                 !.i = @ + 1]

\* else { command or argument; i++ }
StepPlain(f, tokens) ==
  LET token == tokens[f.i + 1] IN
  IF Len(f.command) = 0 /\ Len(f.args) = 0
  THEN [f EXCEPT !.command = Append(@, token),
                 !.kinds = Mark(@, f.i, "command"),
                 !.i = @ + 1]
  ELSE [f EXCEPT !.args = Append(@, token),
                 !.kinds = Mark(@, f.i, "positional"),
                 !.i = @ + 1]

\* one iteration of  while (i < tokens.length)
ParseStep(f, tokens, options) ==
  LET token == tokens[f.i + 1] IN
  IF token = "" THEN [f EXCEPT !.kinds = Mark(@, f.i, "empty"), !.i = @ + 1]
  ELSE IF isOption(token) THEN StepOption(f, tokens, options)
  ELSE IF StartsWith(token, "-") THEN StepCluster(f, tokens, options)
  ELSE StepPlain(f, tokens)

RECURSIVE ParseLoop(_, _, _)
ParseLoop(f, tokens, options) ==
  IF f.err # "" \/ f.i >= Len(tokens) THEN f
  ELSE ParseLoop(ParseStep(f, tokens, options), tokens, options)

\* the frame in which parse(argv, options) returns or throws
parse(argv, options, cache) ==
  ParseLoop(ParseStart(argv, options, cache), Slice2(argv), options)

\* the ParsedArgs of a frame
ParsedOf(f) == [command |-> f.command, options |-> f.options, args |-> f.args]

(***************************************************************************)
(* ZoltraCLIParser.validateArgs                                            *)
(***************************************************************************)
\* The loop  for (const arg of args)  from the spec at position k (1-based).
\* visited counts the specs the loop body ran for; stop says how it ended.
\* Variant: an optional spec without a positional is passed over and the
\* specs after it are still checked.
RECURSIVE ValidateArgsLoopSkippingOptional(_, _, _, _)
ValidateArgsLoopSkippingOptional(positionals, args, k, argIndex) ==
  IF k > Len(args)
  THEN [err |-> "", visited |-> k - 1, argIndex |-> argIndex,
        stop |-> "end"]
  ELSE IF argIndex >= Len(positionals)
  THEN IF args[k].required
       THEN [err |-> "Missing required argument: " \o args[k].name,
             visited |-> k, argIndex |-> argIndex, stop |-> "missing"]
       ELSE ValidateArgsLoopSkippingOptional(positionals, args, k + 1,
                                             argIndex)
  ELSE IF args[k].variadic
  THEN [err |-> "", visited |-> k, argIndex |-> argIndex,
        stop |-> "variadic"]
  ELSE ValidateArgsLoopSkippingOptional(positionals, args, k + 1,
                                        argIndex + 1)

\* Variant: a variadic spec takes one positional like any other spec.
RECURSIVE ValidateArgsLoopPastVariadic(_, _, _, _)
ValidateArgsLoopPastVariadic(positionals, args, k, argIndex) ==
  IF k > Len(args)
  THEN [err |-> "", visited |-> k - 1, argIndex |-> argIndex,
        stop |-> "end"]
  ELSE IF argIndex >= Len(positionals)
  THEN IF args[k].required
       THEN [err |-> "Missing required argument: " \o args[k].name,
             visited |-> k, argIndex |-> argIndex, stop |-> "missing"]
       ELSE [err |-> "", visited |-> k, argIndex |-> argIndex,
             stop |-> "optional"]
  ELSE ValidateArgsLoopPastVariadic(positionals, args, k + 1, argIndex + 1)

RECURSIVE ValidateArgsLoop(_, _, _, _)
ValidateArgsLoop(positionals, args, k, argIndex) ==
  IF k > Len(args)
  THEN [err |-> "", visited |-> k - 1, argIndex |-> argIndex,
        stop |-> "end"]
  ELSE IF argIndex >= Len(positionals)
  THEN IF args[k].required
       THEN [err |-> "Missing required argument: " \o args[k].name,
             visited |-> k, argIndex |-> argIndex, stop |-> "missing"]
       ELSE [err |-> "", visited |-> k, argIndex |-> argIndex,
             stop |-> "optional"]
  ELSE IF args[k].variadic
  THEN [err |-> "", visited |-> k, argIndex |-> argIndex,
        stop |-> "variadic"]
  ELSE ValidateArgsLoop(positionals, args, k + 1, argIndex + 1)

validateArgs(parsedArgs, args) == ValidateArgsLoop(parsedArgs.args, args, 1, 0)

(***************************************************************************)
(* ZoltraCLIParser.validateOptions                                         *)
(***************************************************************************)
\* the required options whose value is undefined, in declaration order
RECURSIVE MissingOptions(_, _)
MissingOptions(parsedArgs, options) ==
  IF Len(options) = 0 THEN <<>>
  ELSE (IF Head(options).required
           /\ GetKey(parsedArgs.options, Head(options).name) = Undefined
        THEN <<Head(options)>> ELSE <<>>)
       \o MissingOptions(parsedArgs, Tail(options))

MissingOptionError(option) ==
  "Missing required option: --" \o option.name
  \o (IF Truthy(option.alias) THEN " (-" \o option.alias.v \o ")" ELSE "")

\* the type and the initial value of the prompt for an option
PromptFor(option) ==
  [type |-> IF option.type = "boolean" THEN "confirm" ELSE "text",
   initial |-> IF option.default # Undefined THEN option.default
               ELSE IF option.type = "number" THEN Num(0)
               ELSE IF option.type = "boolean" THEN Bool(FALSE)
               ELSE Str("")]

\* the answers the prompt collaborator can give to the prompt of an option
PromptTexts == {"Ada", "3000"}
PromptAnswers(option) ==
  IF PromptFor(option).type = "confirm" THEN {Bool(TRUE), Bool(FALSE)}
  ELSE {Str(s) : s \in PromptTexts}

(***************************************************************************)
(* ZoltraCLIBuilder.parse                                                  *)
(*                                                                         *)
(* A run is the state of one invocation: pc is where it stands ("idle",    *)
(* "prompt" while a prompt is awaited, "handler" while the handler is      *)
(* awaited, "done" after a return, "exited" after process.exit(1)).        *)
(* steps is the history of the steps completed or failed, handlerCalls     *)
(* the history of the handler invocations.                                 *)
(***************************************************************************)
EmptyParsed == [command |-> <<>>, options |-> EmptyObject, args |-> <<>>]

RunIdle ==
  [pc |-> "idle", argv |-> <<>>, parsed |-> EmptyParsed,
   commandParsed |-> EmptyParsed, command |-> Null, pending |-> <<>>,
   handlerCalls |-> <<>>, steps |-> <<>>, printed |-> <<>>,
   exitCode |-> Undefined, error |-> "", lookups |-> <<>>]

\* the cache lookups of the frame f, each with the parse of the invocation
\* that made it (1: global-only, 2: re-parse) and the schema of that parse
LookupsOf(f, pass, schema) ==
  [k \in 1..Len(f.lookups) |->
     [pass |-> pass, schema |-> schema, key |-> f.lookups[k].key,
      got |-> f.lookups[k].got, scan |-> f.lookups[k].scan,
      hit |-> f.lookups[k].hit]]

\* String.prototype.includes
Contains(s, sub) ==
  \E k \in 1..(Len(s) - Len(sub) + 1) : SubSeq(s, k, k + Len(sub) - 1) = sub

\* what the catch block prints after the message
ErrorHint(msg) ==
  IF Contains(msg, "Missing required") THEN "command help"
  ELSE IF Contains(msg, "Unknown command") THEN "available commands"
  ELSE "use --help"

\* Variant: the error is printed and parse returns without an exit status.
CatchWithoutExit(r, step, msg) ==
  [r EXCEPT !.pc = "done",
            !.error = msg,
            !.steps = Append(@, step \o ":threw"),
            !.printed = @ \o <<"ERROR", msg, ErrorHint(msg)>>]

\* catch (error) { ...; process.exit(1) } for an error raised in step
Catch(r, step, msg) ==
  [r EXCEPT !.pc = "exited",
            !.error = msg,
            !.steps = Append(@, step \o ":threw"),
            !.printed = @ \o <<"ERROR", msg, ErrorHint(msg)>>,
            !.exitCode = Num(1)]

\* await command.action(args, options): the handler is started
Invoke(r, cmd, bundle) ==
  [r EXCEPT !.pc = "handler",
            !.steps = Append(@, "handler"),
            !.handlerCalls = Append(@, [command |-> cmd,
                                        args |-> bundle.args,
                                        options |-> bundle.options])]

\* parsed.command[0] || ""
CommandName(parsedArgs) ==
  IF Len(parsedArgs.command) > 0 THEN parsedArgs.command[1] ELSE ""

\* this.commands.find((cmd) => cmd.name === commandName
\*                             || cmd.aliases?.includes(commandName))
RECURSIVE FindCommand(_, _)
FindCommand(commands, commandName) ==
  IF Len(commands) = 0 THEN Null
  ELSE IF Head(commands).name = commandName
          \/ Includes(Head(commands).aliases, commandName)
       THEN Some(Head(commands))
       ELSE FindCommand(Tail(commands), commandName)

\* Variant: any registered default command is a fallback.
HasDefaultCommand(commands) ==
  \E k \in 1..Len(commands) : commands[k].name = ""

\* this.commands.length === 1 && this.commands[0]?.name === ""
OnlyDefaultCommand(commands) == Len(commands) = 1 /\ commands[1].name = ""

\* validateOptions up to its first prompt, its throw or its return, and
\* then the call of the handler
ValidateOptionsThenInvoke(r, cmd, schema, interactive_) ==
  LET missingOptions == MissingOptions(r.commandParsed, schema) IN
  IF Len(missingOptions) > 0 /\ interactive_
  THEN [r EXCEPT !.pc = "prompt", !.pending = missingOptions]
  ELSE IF Len(missingOptions) > 0
  THEN Catch(r, "validateOptions", MissingOptionError(missingOptions[1]))
  ELSE Invoke([r EXCEPT !.steps = Append(@, "validateOptions")], cmd,
              r.commandParsed)

\* Variant: the error of validateArgs is recorded but the dispatch goes on.
ValidateArgsErrorSwallowed(r, cmd, schema, interactive_) ==
  LET va == validateArgs(r.commandParsed, cmd.arguments) IN
  ValidateOptionsThenInvoke(
    [r EXCEPT !.steps = Append(@, IF va.err # "" THEN "validateArgs:threw"
                                  ELSE "validateArgs")],
    cmd, schema, interactive_)

\* ZoltraCLIParser.validateArgs(commandParsed, command.arguments || []) and
\* what follows it
ValidateArgsThenOptions(r, cmd, schema, interactive_) ==
  LET va == validateArgs(r.commandParsed, cmd.arguments) IN
  IF va.err # "" THEN Catch(r, "validateArgs", va.err)
  ELSE ValidateOptionsThenInvoke(
         [r EXCEPT !.steps = Append(@, "validateArgs")], cmd, schema,
         interactive_)

\* what follows the re-parse that ended in the frame second
AfterReparse(r, cmd, schema, interactive_, second) ==
  LET q == [r EXCEPT !.lookups = @ \o LookupsOf(second, 2, schema)] IN
  [cache |-> second.cache,
   run |-> IF second.err # "" THEN Catch(q, "reparse", second.err)
           ELSE ValidateArgsThenOptions(
                  [q EXCEPT !.commandParsed = ParsedOf(second),
                            !.steps = Append(@, "reparse")],
                  cmd, schema, interactive_)]

\* Variant: the second parse uses the global options only.
RunCommandGlobalOnly(r, cmd, globalOptions_, interactive_, cache) ==
  AfterReparse(r, cmd, globalOptions_ \o cmd.options, interactive_,
               parse(r.argv, globalOptions_, cache))

\* the re-parse with the options of the command, and what follows it
RunCommand(r, cmd, globalOptions_, interactive_, cache) ==
  AfterReparse(r, cmd, globalOptions_ \o cmd.options, interactive_,
               parse(r.argv, globalOptions_ \o cmd.options, cache))

\* find the command; without a match, the default command or an error
Resolve(r, globalOptions_, commands_, interactive_, cache) ==
  LET commandName == CommandName(r.parsed)
      found == FindCommand(commands_, commandName)
  IN  IF found = Null
      THEN [cache |-> cache,
            run |-> IF OnlyDefaultCommand(commands_)
                    THEN Invoke([r EXCEPT !.steps = Append(@, "resolve")],
                                commands_[1], r.parsed)
                    ELSE Catch(r, "resolve",
                               "Unknown command: " \o commandName)]
      ELSE RunCommand([r EXCEPT !.command = found,
                                !.steps = Append(@, "resolve")],
                      found[1], globalOptions_, interactive_, cache)

\* if (parsed.options.help)
HelpRequested(parsedArgs) == Truthy(GetKey(parsedArgs.options, "help"))

\* if (parsed.options.version)
VersionRequested(parsedArgs) == Truthy(GetKey(parsedArgs.options, "version"))

\* what follows the global-only parse that ended in the frame first
AfterParse(argv_, globalOptions_, commands_, interactive_, first) ==
  LET r == [RunIdle EXCEPT !.argv = argv_, !.parsed = ParsedOf(first),
                           !.steps = <<"parse">>,
                           !.lookups = LookupsOf(first, 1, globalOptions_)]
  IN  IF first.err # ""
      THEN [cache |-> first.cache,
            run |-> Catch([RunIdle EXCEPT
                             !.argv = argv_,
                             !.lookups = LookupsOf(first, 1, globalOptions_)],
                          "parse", first.err)]
      ELSE IF HelpRequested(ParsedOf(first))
      THEN [cache |-> first.cache,
            run |-> [r EXCEPT !.pc = "done", !.printed = <<"help">>]]
      ELSE IF VersionRequested(ParsedOf(first))
      THEN [cache |-> first.cache,
            run |-> [r EXCEPT !.pc = "done", !.printed = <<"version">>]]
      ELSE Resolve(r, globalOptions_, commands_, interactive_, first.cache)

\* ZoltraCLIBuilder.parse(argv) up to its first await, return or exit
Dispatch(argv_, globalOptions_, commands_, interactive_, cache) ==
  AfterParse(argv_, globalOptions_, commands_, interactive_,
             parse(argv_, globalOptions_, cache))

\* the prompt of the first pending option is answered with response
AnswerPrompt(r, response) ==
  LET option == Head(r.pending)
      pv == parseOptionValue(response, option)
      answered == [r EXCEPT !.commandParsed.options =
                              SetKey(@, option.name, pv.val),
                            !.pending = Tail(@)]
  IN  IF pv.err # "" THEN Catch(r, "validateOptions", pv.err)
      ELSE IF Len(answered.pending) > 0 THEN answered
      ELSE Invoke([answered EXCEPT !.steps = Append(@, "validateOptions")],
                  r.command[1], answered.commandParsed)

\* Variant: the error of the cancelled prompt is printed and the handler is
\* invoked all the same.
CancelPromptThenInvoke(r) ==
  Invoke(Catch(r, "validateOptions", MissingOptionError(Head(r.pending))),
         r.command[1], r.commandParsed)

\* the prompt of the first pending option is cancelled
CancelPrompt(r) ==
  Catch(r, "validateOptions", MissingOptionError(Head(r.pending)))

(***************************************************************************)
(* ZoltraCLIParser.validateOptions called directly                         *)
(*                                                                         *)
(* pc is "prompt" while a prompt is awaited, "returned" or "threw" at the  *)
(* end. before is parsed at the entry, prompts the history of the options  *)
(* prompted for, answers the history of the values the prompts returned.   *)
(***************************************************************************)
VoIdle ==
  [pc |-> "idle", parsed |-> EmptyParsed, before |-> EmptyParsed,
   options |-> <<>>, interactive |-> FALSE, pending |-> <<>>,
   prompts |-> <<>>, answers |-> <<>>, error |-> ""]

\* Variant: the error names the last missing option.
validateOptionsNamingLast(parsed, options, interactive_) ==
  LET missingOptions == MissingOptions(parsed, options)
      v == [VoIdle EXCEPT !.parsed = parsed, !.before = parsed,
                          !.options = options, !.interactive = interactive_]
  IN  IF Len(missingOptions) > 0 /\ interactive_
      THEN [v EXCEPT !.pc = "prompt", !.pending = missingOptions,
                     !.prompts = <<missingOptions[1].name>>]
      ELSE IF Len(missingOptions) > 0
      THEN [v EXCEPT !.pc = "threw",
                     !.error = MissingOptionError(
                                 missingOptions[Len(missingOptions)])]
      ELSE [v EXCEPT !.pc = "returned"]

\* validateOptions(parsed, options, interactive) up to its first prompt, its
\* throw or its return
validateOptions(parsed, options, interactive_) ==
  LET missingOptions == MissingOptions(parsed, options)
      v == [VoIdle EXCEPT !.parsed = parsed, !.before = parsed,
                          !.options = options, !.interactive = interactive_]
  IN  IF Len(missingOptions) > 0 /\ interactive_
      THEN [v EXCEPT !.pc = "prompt", !.pending = missingOptions,
                     !.prompts = <<missingOptions[1].name>>]
      ELSE IF Len(missingOptions) > 0
      THEN [v EXCEPT !.pc = "threw",
                     !.error = MissingOptionError(missingOptions[1])]
      ELSE [v EXCEPT !.pc = "returned"]

\* Variant: the answer is stored as the prompt returned it.
ValidateOptionsAnswerRaw(v, response) ==
  LET option == Head(v.pending)
      answered == [v EXCEPT !.parsed.options =
                              SetKey(@, option.name, response),
                            !.pending = Tail(@),
                            !.answers = Append(@, response)]
  IN  IF Len(answered.pending) > 0
      THEN [answered EXCEPT
              !.prompts = Append(@, Head(answered.pending).name)]
      ELSE [answered EXCEPT !.pc = "returned"]

\* the awaited prompt resolves with response.value = response: the value is
\* coerced and stored, then the next prompt is issued or parsed is returned
ValidateOptionsAnswer(v, response) ==
  LET option == Head(v.pending)
      pv == parseOptionValue(response, option)
      answered == [v EXCEPT !.parsed.options =
                              SetKey(@, option.name, pv.val),
                            !.pending = Tail(@),
                            !.answers = Append(@, response)]
  IN  IF pv.err # ""
      THEN [v EXCEPT !.pc = "threw", !.error = pv.err,
                     !.answers = Append(@, response)]
      ELSE IF Len(answered.pending) > 0
      THEN [answered EXCEPT
              !.prompts = Append(@, Head(answered.pending).name)]
      ELSE [answered EXCEPT !.pc = "returned"]

\* the awaited prompt resolves with response.value undefined
ValidateOptionsCancel(v) ==
  [v EXCEPT !.pc = "threw", !.error = MissingOptionError(Head(v.pending))]

(***************************************************************************)
(* Bounds and input universes                                              *)
(***************************************************************************)
\* tokens after "node cli" in one direct call of ZoltraCLIParser.parse
MaxTokens == 2
\* direct calls of ZoltraCLIParser.parse in one behaviour
MaxCalls == 2
\* ArgumentSpecs in a schema handed to validateArgs, and positionals
MaxArgSpecs == 3
MaxPositionals == 3

SeqsUpTo(S, n) == UNION {[1..k -> S] : k \in 0..n}

\* the option schemas of the parser's test suite
Verbose == Opt("verbose", Str("v"), "boolean")
Quiet == Opt("quiet", Str("q"), "boolean")
Output == Opt("output", Str("o"), "string")
OutputNoAlias == Opt("output", Undefined, "string")

ParserSchemas == {<<Verbose, Quiet>>, <<Verbose, Output>>, <<OutputNoAlias>>}
ParserTokens == {"-vq", "--output", "--output=file.txt", "file.txt"}
ParserArgvs == {<<"node", "cli">> \o t : t \in SeqsUpTo(ParserTokens, MaxTokens)}

ArgNames == <<"input", "output", "files", "extra">>
ArgSchemas ==
  UNION {{[k \in 1..n |-> Arg(ArgNames[k], f[k][1], f[k][2])] :
            f \in [1..n -> BOOLEAN \X BOOLEAN]} : n \in 0..MaxArgSpecs}
PositionalNames == <<"file1.txt", "file2.txt", "file3.txt", "file4.txt">>
PositionalLists == {SubSeq(PositionalNames, 1, n) : n \in 0..MaxPositionals}

\* global options registered besides help and version, registered commands,
\* and tokens after "node cli" handed to ZoltraCLIBuilder.parse
MaxGlobalOptions == 1
MaxCommands == 2
MaxArgv == 2

\* the global options every builder is constructed with
Help == Opt("help", Str("h"), "boolean")
Version == Opt("version", Str("V"), "boolean")

\* a required string option without default
NameRequired == [Opt("name", Undefined, "string") EXCEPT !.required = TRUE]
GlobalOptionChoices == {Verbose, NameRequired}

\* the commands build (README, Command Definition) and test (examples)
Build ==
  Cmd("build", <<>>,
      <<[Output EXCEPT !.default = Str("./dist")],
        Opt("watch", Str("w"), "boolean")>>,
      <<Arg("source", TRUE, FALSE)>>)
TestCommand ==
  Cmd("test", <<>>,
      <<Opt("coverage", Undefined, "boolean"),
        [Opt("pattern", Undefined, "string") EXCEPT
           !.default = Str("**/*.test.ts")]>>,
      <<>>)
CommandChoices == {Build, TestCommand}

\* the command that ZoltraCLIBuilder.action registers
DefaultCommand == Cmd("", <<>>, <<>>, <<>>)

BuilderTokens ==
  {"--help", "build", "src", "test", "frobnicate", "--name=Ada"}
BuilderArgvs ==
  {<<"node", "cli">> \o t : t \in SeqsUpTo(BuilderTokens, MaxArgv)}

(***************************************************************************)
(* State                                                                   *)
(***************************************************************************)
VARIABLES
  optionCache,   \* ZoltraCLIParser.optionCache: key -> Null or Some(option)
  pCalls,        \* direct calls of ZoltraCLIParser.parse made so far
  pArgv,         \* argv of the last direct call
  pOptions,      \* the schema of the last direct call
  cacheBefore,   \* optionCache at the entry of the last direct call
  frame,         \* the frame in which the last direct call ended
  vArgs,         \* the schema of the last call of validateArgs
  vParsed,       \* the ParsedArgs of the last call of validateArgs
  vResult,       \* how the last call of validateArgs ended
  vo,            \* the direct invocation of validateOptions
  coerced,       \* the last direct call of parseOptionValue
  globalOptions, \* ZoltraCLIBuilder.globalOptions
  commands,      \* ZoltraCLIBuilder.commands
  interactive,   \* ZoltraCLIBuilder.interactive
  run,           \* the invocation of ZoltraCLIBuilder.parse
  builders       \* the ZoltraCommandBuilder objects created so far

parserVars == <<optionCache, pCalls, pArgv, pOptions, cacheBefore, frame>>
argVars == <<vArgs, vParsed, vResult, vo, coerced>>
builderVars == <<globalOptions, commands, interactive, run, builders>>
vars == <<parserVars, argVars, builderVars>>

NotCalled == [err |-> "", visited |-> 0, argIndex |-> 0, stop |-> "idle"]
NotCoerced ==
  [called |-> FALSE, value |-> Undefined, option |-> Opt("", Undefined, ""),
   result |-> Returned(Undefined)]

ParserInit ==
  /\ optionCache = EmptyObject
  /\ pCalls = 0
  /\ pArgv = <<>>
  /\ pOptions = <<>>
  /\ cacheBefore = EmptyObject
  /\ frame = ParseStart(<<>>, <<>>, EmptyObject)

ArgsInit ==
  /\ vArgs = <<>>
  /\ vParsed = [command |-> <<>>, options |-> EmptyObject, args |-> <<>>]
  /\ vResult = NotCalled
  /\ vo = VoIdle
  /\ coerced = NotCoerced

\* new ZoltraCLIBuilder(name, version)
BuilderInit ==
  /\ globalOptions = <<Help, Version>>
  /\ commands = <<>>
  /\ interactive = FALSE
  /\ run = RunIdle
  /\ builders = <<>>

Init == ParserInit /\ ArgsInit /\ BuilderInit

(***************************************************************************)
(* Direct use of ZoltraCLIParser                                           *)
(***************************************************************************)
\* ZoltraCLIParser.parse(argv, options)
ParseCall(argv_, options_) ==
  /\ pCalls < MaxCalls
  /\ pCalls' = pCalls + 1
  /\ pArgv' = argv_
  /\ pOptions' = options_
  /\ cacheBefore' = optionCache
  /\ frame' = parse(argv_, options_, optionCache)
  /\ optionCache' = frame'.cache
  /\ UNCHANGED <<argVars, builderVars>>

\* ZoltraCLIParser.clearCache()
ClearCache ==
  /\ optionCache' = EmptyObject
  /\ UNCHANGED <<pCalls, pArgv, pOptions, cacheBefore, frame>>
  /\ UNCHANGED <<argVars, builderVars>>

\* ZoltraCLIParser.validateArgs(parsed, args)
ValidateArgsCall(parsed_, args_) ==
  /\ vResult.stop = "idle"
  /\ vArgs' = args_
  /\ vParsed' = parsed_
  /\ vResult' = validateArgs(parsed_, args_)
  /\ UNCHANGED <<vo, coerced, parserVars, builderVars>>

(***************************************************************************)
(* ZoltraCLIBuilder                                                        *)
(***************************************************************************)
directVars == <<pCalls, pArgv, pOptions, cacheBefore, frame>>

\* ZoltraCLIBuilder.option(name, description, config)
Option(option) ==
  /\ run.pc = "idle"
  /\ Len(globalOptions) < 2 + MaxGlobalOptions
  /\ globalOptions' = Append(globalOptions, option)
  /\ UNCHANGED <<commands, interactive, run, builders, parserVars, argVars>>

\* ZoltraCLIBuilder.addCommand(command), as the command builders call it
AddCommand(command) ==
  /\ run.pc = "idle"
  /\ Len(commands) < MaxCommands
  /\ commands' = Append(commands, command)
  /\ UNCHANGED <<globalOptions, interactive, run, builders, parserVars, argVars>>

\* ZoltraCLIBuilder.action(handler)
Action ==
  /\ run.pc = "idle"
  /\ Len(commands) < MaxCommands
  /\ commands' = Append(commands, DefaultCommand)
  /\ UNCHANGED <<globalOptions, interactive, run, builders, parserVars, argVars>>

\* ZoltraCLIBuilder.setInteractive(interactive)
SetInteractive(interactive_) ==
  /\ run.pc = "idle"
  /\ interactive' = interactive_
  /\ UNCHANGED <<globalOptions, commands, run, builders, parserVars, argVars>>

\* ZoltraCLIBuilder.parse(argv), up to its first await, return or exit
Parse(argv_) ==
  /\ run.pc = "idle"
  /\ \E d \in {Dispatch(argv_, globalOptions, commands, interactive,
                         optionCache)} :
       run' = d.run /\ optionCache' = d.cache
  /\ UNCHANGED <<globalOptions, commands, interactive, builders, directVars, argVars>>

\* the prompt collaborator returns an answer
PromptAnswer(response) ==
  /\ run.pc = "prompt"
  /\ response \in PromptAnswers(Head(run.pending))
  /\ run' = AnswerPrompt(run, response)
  /\ UNCHANGED <<globalOptions, commands, interactive, builders, parserVars, argVars>>

\* the prompt collaborator returns no value: the user cancelled
PromptCancel ==
  /\ run.pc = "prompt"
  /\ run' = CancelPrompt(run)
  /\ UNCHANGED <<globalOptions, commands, interactive, builders, parserVars, argVars>>

\* the awaited handler completes
HandlerReturns ==
  /\ run.pc = "handler"
  /\ run' = [run EXCEPT !.pc = "done"]
  /\ UNCHANGED <<globalOptions, commands, interactive, builders, parserVars, argVars>>

\* the awaited handler fails
HandlerThrows ==
  /\ run.pc = "handler"
  /\ run' = Catch(run, "handler", "Something went wrong!")
  /\ UNCHANGED <<globalOptions, commands, interactive, builders, parserVars, argVars>>

Next ==
  \/ \E option \in GlobalOptionChoices : Option(option)
  \/ \E command \in CommandChoices : AddCommand(command)
  \/ Action
  \/ \E interactive_ \in BOOLEAN : SetInteractive(interactive_)
  \/ \E argv_ \in BuilderArgvs : Parse(argv_)
  \/ \E response \in {Bool(TRUE), Bool(FALSE)} \cup {Str(s) : s \in PromptTexts} :
       PromptAnswer(response)
  \/ PromptCancel
  \/ HandlerReturns
  \/ HandlerThrows

Spec == Init /\ [][Next]_vars

NextParser ==
  \/ \E argv_ \in ParserArgvs, options_ \in ParserSchemas :
       ParseCall(argv_, options_)
  \/ ClearCache

NextArgs ==
  \E args_ \in ArgSchemas, p \in PositionalLists :
    ValidateArgsCall([command |-> <<>>, options |-> EmptyObject, args |-> p],
                     args_)

SpecParser == Init /\ [][NextParser]_vars
SpecArgs == Init /\ [][NextArgs]_vars

(***************************************************************************)
(* Properties of ZoltraCLIParser.parse                                     *)
(***************************************************************************)
Called == pCalls > 0
Returned_ == Called /\ frame.err = ""
pTokens == Slice2(pArgv)

\* the options of a schema whose alias is the character c
WithAlias(options, c) ==
  {options[k] : k \in {j \in 1..Len(options) : options[j].alias = Str(c)}}

\* a dash followed by two or more letters, each the alias of a boolean option
IsBooleanCluster(token, options) ==
  /\ Len(token) >= 3
  /\ CharAt(token, 1) = "-"
  /\ \A k \in 2..Len(token) :
       /\ CharAt(token, k) \in Letters
       /\ \E o \in WithAlias(options, CharAt(token, k)) : o.type = "boolean"

\* C1: a dash token made of two or more letters, each the alias of a
\* boolean option of the schema, sets every one of those options to true
\* in the ParsedArgs that parse returns (-vq sets verbose and quiet).
C1_ClusterSetsEveryFlag ==
  Returned_ =>
    \A k \in 1..Len(pTokens) :
      IsBooleanCluster(pTokens[k], pOptions) =>
        \A c \in 2..Len(pTokens[k]) :
          \A o \in WithAlias(pOptions, CharAt(pTokens[k], c)) :
            GetKey(frame.options, o.name) = Bool(TRUE)

\* C2: the token that a flag without "=value" takes as its value is
\* consumed: it is not classified again as the command segment or as a
\* positional.
C2_ValueTokenConsumed ==
  Returned_ =>
    \A k \in 2..Len(pTokens) :
      ("value" \in frame.kinds[k] /\ "flag" \in frame.kinds[k - 1]) =>
        frame.kinds[k] \cap {"command", "positional"} = {}

\* the values of the universe that are not option-shaped
PlainValues == {t \in ParserTokens : t # "" /\ ~isOption(t)}

\* C3: for a string-kind option name and a value v that is not
\* option-shaped, parse of [--name=v] and parse of [--name, v] return
\* identical ParsedArgs.
C3_EqualsFormSameAsSpaceForm ==
  Called =>
    \A k \in 1..Len(pOptions) : \A v \in PlainValues :
      (pOptions[k].type = "string"
       /\ pTokens = <<"--" \o pOptions[k].name \o "=" \o v>>) =>
        ParsedOf(frame) =
          ParsedOf(parse(<<"node", "cli", "--" \o pOptions[k].name, v>>,
                         pOptions, cacheBefore))

\* C4: with no clearCache between the calls, every lookup made through the
\* cache returns what a direct scan of the schema of that call returns, and
\* parse returns the ParsedArgs an uncached parser returns.
C4_CacheAgreesWithScan ==
  Called =>
    /\ \A k \in 1..Len(frame.lookups) :
         frame.lookups[k].got = frame.lookups[k].scan
    /\ ParsedOf(frame) = ParsedOf(parse(pArgv, pOptions, EmptyObject))

(***************************************************************************)
(* Properties of ZoltraCLIParser.validateArgs                              *)
(***************************************************************************)
Validated == vResult.stop # "idle"
NoVariadic(args) == \A k \in 1..Len(args) : ~args[k].variadic
Variadics(args) == {k \in 1..Len(args) : args[k].variadic}
FirstOf(S) == CHOOSE k \in S : \A j \in S : k <= j
\* the required specs that have no positional at their index
Unfilled(parsedArgs, args) ==
  {k \in 1..Len(args) : args[k].required /\ k > Len(parsedArgs.args)}
MissingArgument(arg) == "Missing required argument: " \o arg.name

\* C9 as claimed: without a variadic spec, if some required spec has no
\* positional at its index, validateArgs fails naming the first such spec,
\* whatever specs precede it.
C9_FirstUnfilledRequiredNamed ==
  (Validated /\ NoVariadic(vArgs) /\ Unfilled(vParsed, vArgs) # {}) =>
    vResult.err = MissingArgument(vArgs[FirstOf(Unfilled(vParsed, vArgs))])

\* C9 amended: without a variadic spec, validateArgs looks only at the
\* first spec that has no positional at its index: if that spec is required
\* it fails naming it, if it is optional it returns without error and no
\* later spec is checked.
C9_FirstSpecWithoutPositionalDecides ==
  (Validated /\ NoVariadic(vArgs) /\ Len(vParsed.args) < Len(vArgs)) =>
    LET k == Len(vParsed.args) + 1 IN
    /\ vResult.visited = k
    /\ vResult.err = IF vArgs[k].required THEN MissingArgument(vArgs[k])
                     ELSE ""

\* a required spec after a filled one is reported missing
C9_Witness ==
  /\ Validated
  /\ NoVariadic(vArgs)
  /\ Len(vParsed.args) = 1
  /\ Len(vArgs) = 3
  /\ vArgs[2].required
  /\ vResult.err = MissingArgument(vArgs[2])

\* validateArgs reaches the first variadic spec: every earlier one is filled
ReachesVariadic ==
  /\ Validated
  /\ Variadics(vArgs) # {}
  /\ Len(vParsed.args) >= FirstOf(Variadics(vArgs)) - 1

\* C10 as claimed: at a variadic spec validateArgs stops without error for
\* any number of remaining positionals, zero included, whatever the
\* required flag of the spec; no later spec is checked.
C10_VariadicAlwaysAccepts ==
  ReachesVariadic =>
    /\ vResult.err = ""
    /\ vResult.visited = FirstOf(Variadics(vArgs))

\* C10 amended: at a variadic spec validateArgs stops and no later spec is
\* checked; it returns without error if a positional remains or the spec is
\* not required, and fails naming the spec if it is required and no
\* positional remains.
C10_VariadicStopsValidation ==
  ReachesVariadic =>
    LET k == FirstOf(Variadics(vArgs)) IN
    /\ vResult.visited = k
    /\ vResult.err = IF vArgs[k].required /\ Len(vParsed.args) = k - 1
                     THEN MissingArgument(vArgs[k])
                     ELSE ""

\* a variadic spec with positionals left and a required spec declared after
C10_Witness ==
  /\ ReachesVariadic
  /\ Len(vArgs) = 3
  /\ vArgs[2].variadic /\ ~vArgs[1].variadic
  /\ vArgs[3].required
  /\ Len(vParsed.args) = 3
  /\ vResult.stop = "variadic"

(***************************************************************************)
(* Properties of ZoltraCLIBuilder.parse                                    *)
(***************************************************************************)
Started == run.pc # "idle"
bTokens == Slice2(run.argv)
Range(seq) == {seq[k] : k \in 1..Len(seq)}
GlobalFlagTokens == {"--help", "-h", "--version", "-V"}

\* C5: when the help flag or the version flag occurs as a token, whatever
\* precedes or follows it, parse invokes no command handler.
C5_GlobalFlagInvokesNoHandler ==
  (Started /\ \E k \in 1..Len(bTokens) : bTokens[k] \in GlobalFlagTokens) =>
    run.handlerCalls = <<>>

\* the bundle of a handler invocation passes the Argument Validator and
\* holds every required option of global plus command options
BundleValidated(h) ==
  /\ validateArgs([EmptyParsed EXCEPT !.args = h.args],
                  h.command.arguments).err = ""
  /\ MissingOptions([EmptyParsed EXCEPT !.options = h.options],
                    globalOptions \o h.command.options) = <<>>

\* C6: whenever parse invokes a handler, of a matched command or of the
\* default command, the bundle it passes is fully validated.
C6_HandlerBundleValidated ==
  \A k \in 1..Len(run.handlerCalls) : BundleValidated(run.handlerCalls[k])

StepsBeforeHandler ==
  {"parse", "resolve", "reparse", "validateArgs", "validateOptions"}
Threw(step) == (step \o ":threw") \in Range(run.steps)

\* C7: per invocation of parse handlers are invoked at most once; exactly
\* once when the re-parse, the Argument Validator and the Interactive
\* Backfill have completed without error, in that order and before the
\* handler starts; not at all when one of the steps raises.
C7_HandlerAtMostOnce ==
  /\ Len(run.handlerCalls) <= 1
  /\ (\E step \in StepsBeforeHandler : Threw(step)) => run.handlerCalls = <<>>
  /\ "validateOptions" \in Range(run.steps) =>
       /\ Len(run.handlerCalls) = 1
       /\ SubSeq(run.steps, 1, 6) =
            <<"parse", "resolve", "reparse", "validateArgs",
              "validateOptions", "handler">>

\* the handler of build ran once, after validation, and returned
C7_Witness ==
  /\ run.pc = "done"
  /\ Len(run.handlerCalls) = 1
  /\ run.handlerCalls[1].command.name = "build"
  /\ "validateOptions" \in Range(run.steps)

\* the global-only parse returned, neither help nor version is set and the
\* tentative command name matches no registered command
NoCommandMatched ==
  /\ Started
  /\ run.steps[1] = "parse"
  /\ ~Truthy(GetKey(run.parsed.options, "help"))
  /\ ~Truthy(GetKey(run.parsed.options, "version"))
  /\ \A k \in 1..Len(commands) :
       /\ commands[k].name # CommandName(run.parsed)
       /\ ~Includes(commands[k].aliases, CommandName(run.parsed))

DefaultInvoked ==
  run.handlerCalls =
    <<[command |-> DefaultCommand, args |-> run.parsed.args,
       options |-> run.parsed.options]>>

UnknownCommandRaised ==
  /\ run.error = "Unknown command: " \o CommandName(run.parsed)
  /\ run.handlerCalls = <<>>

\* C8 as claimed: without a match, if exactly one registered command has an
\* empty name, however many named commands are registered beside it, the
\* handler of that default command is invoked with the positionals and
\* options of the global-only parse; otherwise parse fails with Unknown
\* command and invokes no handler.
C8_DefaultAmongNamedCommands ==
  NoCommandMatched =>
    IF Cardinality({k \in 1..Len(commands) : commands[k].name = ""}) = 1
    THEN DefaultInvoked
    ELSE UnknownCommandRaised

\* C8 amended: without a match, if the default command is the only
\* registered command its handler is invoked with the positionals and
\* options of the global-only parse; otherwise, also when named commands
\* are registered beside a default command, parse fails with Unknown
\* command naming the token and invokes no handler.
C8_DefaultOnlyWhenAlone ==
  NoCommandMatched =>
    IF Len(commands) = 1 /\ commands[1].name = ""
    THEN DefaultInvoked
    ELSE UnknownCommandRaised

\* the only command is the default one; an unmatched token and a positional
C8_Witness ==
  /\ NoCommandMatched
  /\ commands = <<DefaultCommand>>
  /\ CommandName(run.parsed) = "frobnicate"
  /\ Len(run.handlerCalls) = 1
  /\ run.handlerCalls[1].args = <<"src">>

(***************************************************************************)
(* Malformed flag tokens                                                   *)
(***************************************************************************)
\* dash tokens without an identifier after the dashes, a flag and a value
MalformedTokens == {"-", "--", "-=x", "--1", "--verbose", "file.txt"}
MalformedArgvs ==
  {<<"node", "cli">> \o t : t \in SeqsUpTo(MalformedTokens, MaxTokens)}

NextMalformed ==
  \/ \E argv_ \in MalformedArgvs : ParseCall(argv_, <<Verbose, Quiet>>)
  \/ ClearCache

SpecMalformed == Init /\ [][NextMalformed]_vars

\* what follows the one or two leading dashes of a token
AfterDashes(token) ==
  IF Len(token) >= 2 /\ CharAt(token, 2) = "-" THEN SubSeq(token, 3, Len(token))
  ELSE Tail(token)

\* a dash, or two, and then no identifier (which starts with a letter)
IsMalformed(token) ==
  /\ StartsWith(token, "-")
  /\ (AfterDashes(token) = "" \/ CharAt(AfterDashes(token), 1) \notin Letters)

\* C11: a call of parse whose tokens hold a malformed flag token fails with
\* Invalid option format naming such a token; it returns no ParsedArgs.
C11_MalformedTokenRejected ==
  (Called /\ \E k \in 1..Len(pTokens) : IsMalformed(pTokens[k])) =>
    \E k \in 1..Len(pTokens) :
      /\ IsMalformed(pTokens[k])
      /\ frame.err = "Invalid option format: " \o pTokens[k]

(***************************************************************************)
(* Direct use of ZoltraCLIParser.validateOptions                           *)
(***************************************************************************)
\* OptionSpecs in a schema handed to validateOptions
MaxOptionSpecs == 3

\* required options of the kinds number and boolean
PortRequired == [Opt("port", Str("p"), "number") EXCEPT !.required = TRUE]
ConfirmRequired ==
  [Opt("confirm", Undefined, "boolean") EXCEPT !.required = TRUE]
OptionSpecChoices == {NameRequired, PortRequired, ConfirmRequired, Verbose}

\* the schemas that declare each option once
OptionSchemas ==
  {q \in SeqsUpTo(OptionSpecChoices, MaxOptionSpecs) :
     \A i, j \in 1..Len(q) : q[i] = q[j] => i = j}

\* parsed.options at the entry of validateOptions
ParsedOptionChoices ==
  {EmptyObject, SetKey(EmptyObject, "name", Str("Bob")),
   SetKey(EmptyObject, "port", Num(8080))}

\* ZoltraCLIParser.validateOptions(parsed, options, interactive)
ValidateOptionsCall(parsed_, options_, interactive_) ==
  /\ vo.pc = "idle"
  /\ vo' = validateOptions(parsed_, options_, interactive_)
  /\ UNCHANGED <<vArgs, vParsed, vResult, coerced, parserVars, builderVars>>

\* the prompt of validateOptions returns an answer
OptionsPromptAnswer(response) ==
  /\ vo.pc = "prompt"
  /\ response \in PromptAnswers(Head(vo.pending))
  /\ vo' = ValidateOptionsAnswer(vo, response)
  /\ UNCHANGED <<vArgs, vParsed, vResult, coerced, parserVars, builderVars>>

\* the prompt of validateOptions returns no value
OptionsPromptCancel ==
  /\ vo.pc = "prompt"
  /\ vo' = ValidateOptionsCancel(vo)
  /\ UNCHANGED <<vArgs, vParsed, vResult, coerced, parserVars, builderVars>>

NextOptions ==
  \/ \E o \in ParsedOptionChoices, options_ \in OptionSchemas,
        interactive_ \in BOOLEAN :
       ValidateOptionsCall([EmptyParsed EXCEPT !.options = o], options_,
                           interactive_)
  \/ \E response \in {Bool(TRUE), Bool(FALSE)} \cup {Str(s) : s \in PromptTexts} :
       OptionsPromptAnswer(response)
  \/ OptionsPromptCancel

SpecOptions == Init /\ [][NextOptions]_vars

\* the positions in the schema of the required options that were undefined
\* in parsed.options when validateOptions was entered
MissingAtEntry ==
  {k \in 1..Len(vo.options) :
     /\ vo.options[k].required
     /\ GetKey(vo.before.options, vo.options[k].name) = Undefined}

FirstMissingAtEntry ==
  vo.options[CHOOSE k \in MissingAtEntry : \A j \in MissingAtEntry : k <= j]

\* C12: with interactive disabled validateOptions issues no prompt and
\* leaves parsed as it was; it fails with Missing required option naming the
\* first missing required option of the schema, or, when none is missing,
\* returns parsed unchanged.
C12_NonInteractiveNamesFirstMissing ==
  (vo.pc # "idle" /\ ~vo.interactive) =>
    /\ vo.prompts = <<>>
    /\ vo.parsed = vo.before
    /\ IF MissingAtEntry # {}
       THEN /\ vo.pc = "threw"
            /\ vo.error = MissingOptionError(FirstMissingAtEntry)
       ELSE vo.pc = "returned" /\ vo.error = ""

\* two required options are missing and the error names the first
C12_Witness ==
  /\ vo.pc = "threw"
  /\ ~vo.interactive
  /\ Cardinality(MissingAtEntry) >= 2
  /\ vo.error = "Missing required option: --port (-p)"

\* the missing required options at entry, in schema declaration order
RECURSIVE RequiredUndefinedFrom(_)
RequiredUndefinedFrom(k) ==
  IF k > Len(vo.options) THEN <<>>
  ELSE (IF k \in MissingAtEntry THEN <<vo.options[k]>> ELSE <<>>)
       \o RequiredUndefinedFrom(k + 1)

Backfilled == RequiredUndefinedFrom(1)

IsPrefix(a, b) == Len(a) <= Len(b) /\ SubSeq(b, 1, Len(a)) = a

\* in interactive mode only a cancelled prompt raises this error
PromptWasCancelled == Contains(vo.error, "Missing required option")

\* the prompts issued so far are for the first missing options, in order
PromptsInOrder ==
  IsPrefix(vo.prompts, [k \in 1..Len(Backfilled) |-> Backfilled[k].name])

\* the k-th answer went through the Value Coercer into the k-th missing
\* option, and every other option is as it was at entry
AnswersStored ==
  /\ DOMAIN vo.parsed.options =
       DOMAIN vo.before.options
         \cup {Backfilled[k].name : k \in 1..Len(Backfilled)}
  /\ \A k \in 1..Len(Backfilled) :
       vo.parsed.options[Backfilled[k].name] =
         parseOptionValue(vo.answers[k], Backfilled[k]).val
  /\ \A key \in DOMAIN vo.before.options :
       vo.parsed.options[key] = vo.before.options[key]
  /\ vo.parsed.command = vo.before.command
  /\ vo.parsed.args = vo.before.args

BackfillComplete ==
  /\ vo.pc = "returned"
  /\ vo.error = ""
  /\ Len(vo.prompts) = Len(Backfilled)
  /\ Len(vo.answers) = Len(Backfilled)
  /\ PromptsInOrder
  /\ AnswersStored

\* C13 as claimed: in interactive mode, once validateOptions has ended and no
\* prompt was cancelled, it has returned without error after one prompt per
\* missing required option, in schema order, with each answer stored as the
\* Value Coercer gives it and every other option unchanged.
C13_ReturnsUnlessCancelled ==
  (vo.interactive /\ vo.pc \in {"returned", "threw"} /\ ~PromptWasCancelled)
    => BackfillComplete

\* C13 amended: in interactive mode the prompts are issued one per missing
\* required option in schema order; validateOptions ends either by a
\* cancelled prompt, or with the error of the Value Coercer for the last
\* answer, or, when the coercer accepts every answer, by returning without
\* error the bundle with each answer stored as coerced and every other
\* option unchanged.
C13_ReturnsWhenAnswersCoerce ==
  (vo.interactive /\ vo.pc # "idle") =>
    /\ PromptsInOrder
    /\ vo.pc = "returned" => BackfillComplete
    /\ (vo.pc = "threw" /\ ~PromptWasCancelled) =>
         /\ Len(vo.answers) = Len(vo.prompts)
         /\ vo.error =
              parseOptionValue(vo.answers[Len(vo.answers)],
                               Backfilled[Len(vo.answers)]).err
         /\ vo.error # ""
    /\ (\A k \in 1..Len(vo.answers) :
          parseOptionValue(vo.answers[k], Backfilled[k]).err = "")
         => (vo.pc \in {"prompt", "returned"} \/ PromptWasCancelled)

\* name is already present; port and confirm were prompted for, in order
C13_Witness ==
  /\ vo.pc = "returned"
  /\ vo.interactive
  /\ vo.prompts = <<"port", "confirm">>
  /\ GetKey(vo.before.options, "name") = Str("Bob")
  /\ vo.parsed.options["port"] = Num(3000)
  /\ vo.parsed.options["confirm"] = Bool(TRUE)
  /\ vo.parsed.options["name"] = Str("Bob")

(***************************************************************************)
(* ZoltraCLIBuilder.parse with prompts for several required options        *)
(***************************************************************************)
\* the command serve of the examples with both options required, no default
HostRequired == [Opt("host", Undefined, "string") EXCEPT !.required = TRUE]
Serve == Cmd("serve", <<>>, <<PortRequired, HostRequired>>, <<>>)

PromptTokens == {"serve", "--port=3000", "--host=local", "--name=Ada"}
PromptArgvs == {<<"node", "cli">> \o t : t \in SeqsUpTo(PromptTokens, MaxArgv)}

NextPrompt ==
  \/ Option(NameRequired)
  \/ AddCommand(Serve)
  \/ \E interactive_ \in BOOLEAN : SetInteractive(interactive_)
  \/ \E argv_ \in PromptArgvs : Parse(argv_)
  \/ \E response \in {Str(s) : s \in PromptTexts} : PromptAnswer(response)
  \/ PromptCancel
  \/ HandlerReturns
  \/ HandlerThrows

SpecPrompt == Init /\ [][NextPrompt]_vars

\* the schema validateOptions was called with for the matched command
RunSchema == globalOptions \o run.command[1].options

\* the missing required options when validateOptions was entered
MissingAtBackfill ==
  MissingOptions(ParsedOf(parse(run.argv, RunSchema, optionCache)), RunSchema)

\* a prompt of the interactive backfill was cancelled
PromptCancelled ==
  /\ interactive
  /\ "validateOptions:threw" \in Range(run.steps)
  /\ Contains(run.error, "Missing required option")

\* the position among the missing options of the prompt that was cancelled
CancelledAt == Len(MissingAtBackfill) - Len(run.pending) + 1

\* C14: when the k-th prompt is cancelled, parse ends with Missing required
\* option naming the k-th missing option and exit status 1; the answers to
\* the first k-1 prompts are in parsedArgs, no option not answered by them
\* was prompted for later, and no handler is invoked.
C14_CancelAbortsBackfill ==
  PromptCancelled =>
    /\ run.pc = "exited"
    /\ run.exitCode = Num(1)
    /\ CancelledAt \in 1..Len(MissingAtBackfill)
    /\ run.error = MissingOptionError(MissingAtBackfill[CancelledAt])
    /\ run.handlerCalls = <<>>
    /\ \A j \in 1..(CancelledAt - 1) :
         GetKey(run.commandParsed.options, MissingAtBackfill[j].name)
           # Undefined
    /\ \A j \in CancelledAt..Len(MissingAtBackfill) :
         (\A i \in 1..(CancelledAt - 1) :
            MissingAtBackfill[i].name # MissingAtBackfill[j].name)
           => GetKey(run.commandParsed.options, MissingAtBackfill[j].name)
                = Undefined

\* name and port were answered, the prompt for host was cancelled
C14_Witness ==
  /\ PromptCancelled
  /\ CancelledAt = 3
  /\ run.commandParsed.options["name"] = Str("Ada")
  /\ run.commandParsed.options["port"] = Num(3000)
  /\ run.error = "Missing required option: --host"

(***************************************************************************)
(* ZoltraCLIBuilder.parse: the errors of every step                        *)
(***************************************************************************)
ErrorTokens == {"build", "serve", "src", "--port=abc", "--port=3000"}
ErrorArgvs == {<<"node", "cli">> \o t : t \in SeqsUpTo(ErrorTokens, MaxArgv)}

NextErrors ==
  \/ Option(PortRequired)
  \/ \E command \in {Build, Serve} : AddCommand(command)
  \/ Action
  \/ \E interactive_ \in BOOLEAN : SetInteractive(interactive_)
  \/ \E argv_ \in ErrorArgvs : Parse(argv_)
  \/ \E response \in {Str(s) : s \in PromptTexts} : PromptAnswer(response)
  \/ PromptCancel
  \/ HandlerReturns
  \/ HandlerThrows

SpecErrors == Init /\ [][NextErrors]_vars

AllSteps == StepsBeforeHandler \cup {"handler"}
ErrorRaised == \E step \in AllSteps : Threw(step)

\* the error was printed and the process was terminated with status 1
CaughtAndExited ==
  /\ run.pc = "exited"
  /\ run.exitCode = Num(1)
  /\ run.error # ""
  /\ \E k \in 1..Len(run.printed) - 1 :
       run.printed[k] = "ERROR" /\ run.printed[k + 1] = run.error

\* C15: an error raised in any step of parse (tokenizer and coercer in the
\* two parses, command resolution, validateArgs, validateOptions, handler)
\* is printed and ends the process with exit status 1; a run in which no
\* step raised an error sets no exit status.
C15_ErrorsExitWithStatusOne ==
  Started =>
    /\ ErrorRaised => CaughtAndExited
    /\ ~ErrorRaised =>
         run.exitCode = Undefined /\ run.error = "" /\ run.pc # "exited"
    /\ parse(run.argv, globalOptions, optionCache).err # "" =>
         /\ Threw("parse")
         /\ run.error = parse(run.argv, globalOptions, optionCache).err
    /\ (run.command # Null
          /\ parse(run.argv, RunSchema, optionCache).err # "") =>
         /\ Threw("reparse")
         /\ run.error = parse(run.argv, RunSchema, optionCache).err
    /\ (Threw("resolve") \/ Threw("validateArgs")
          \/ Threw("validateOptions") \/ Threw("handler")) =>
         run.steps[1] = "parse"

\* the coercer rejected the value of the command's number option in the
\* re-parse
C15_Witness ==
  /\ Threw("reparse")
  /\ run.error = "Option port expects a number, got: abc"
  /\ run.exitCode = Num(1)

(***************************************************************************)
(* ZoltraCLIBuilder.parse: options of the matched command                  *)
(***************************************************************************)
\* tokens after "node cli build"
CommandOptionTokens == {"-o", "out2", "--output=out2", "--watch", "-v", "src"}
CommandOptionArgvs ==
  {<<"node", "cli", "build">> \o t :
     t \in SeqsUpTo(CommandOptionTokens, MaxArgv)}

NextCommandOptions ==
  \/ Option(Verbose)
  \/ \E command \in CommandChoices : AddCommand(command)
  \/ \E argv_ \in CommandOptionArgvs : Parse(argv_)
  \/ HandlerReturns
  \/ HandlerThrows

SpecCommandOptions == Init /\ [][NextCommandOptions]_vars

\* token is the flag of option, by name or by alias, with or without =value
IsFlagOf(token, option) ==
  \/ token = "--" \o option.name
  \/ option.alias # Undefined /\ token = "-" \o option.alias.v
  \/ /\ Len(token) > Len(option.name) + 3
     /\ SubSeq(token, 1, Len(option.name) + 3) = "--" \o option.name \o "="

\* the value after the = of a --name=value flag of option
InlineValue(token, option) ==
  SubSeq(token, Len(option.name) + 4, Len(token))

IsInlineFlagOf(token, option) ==
  /\ Len(token) > Len(option.name) + 3
  /\ SubSeq(token, 1, Len(option.name) + 3) = "--" \o option.name \o "="

OwnOptions(command) ==
  {command.options[k] : k \in 1..Len(command.options)}

\* C16: with the global option verbose/v and the command build owning
\* output/o, parse of [node, cli, build, -o, out2] invokes the handler of
\* build with options.output = "out2" and without options.verbose; and in
\* every invocation of a matched command's handler each option of the
\* command that has a flag among the tokens is set in the handler's options
\* (to the value after the = when the last flag of a string option is
\* --name=value), although the global-only first parse did not set it.
C16_ReparseRecognisesCommandOptions ==
  /\ (/\ Started
      /\ globalOptions = <<Help, Version, Verbose>>
      /\ \E k \in 1..Len(commands) : commands[k] = Build
      /\ bTokens = <<"build", "-o", "out2">>) =>
        /\ Len(run.handlerCalls) = 1
        /\ run.handlerCalls[1].command = Build
        /\ GetKey(run.handlerCalls[1].options, "output") = Str("out2")
        /\ "verbose" \notin DOMAIN run.handlerCalls[1].options
  /\ \A c \in 1..Len(run.handlerCalls) :
       LET h == run.handlerCalls[c] IN
       \A option \in OwnOptions(h.command), k \in 1..Len(bTokens) :
         IsFlagOf(bTokens[k], option) =>
           /\ option.name \in DOMAIN h.options
           /\ option.name \notin DOMAIN run.parsed.options
           /\ (/\ IsInlineFlagOf(bTokens[k], option)
               /\ option.type = "string"
               /\ \A j \in (k + 1)..Len(bTokens) :
                    ~IsFlagOf(bTokens[j], option))
                => h.options[option.name] =
                     Str(InlineValue(bTokens[k], option))

\* the scenario: build -o out2 with the global option verbose registered
C16_Witness ==
  /\ globalOptions = <<Help, Version, Verbose>>
  /\ bTokens = <<"build", "-o", "out2">>
  /\ Len(run.handlerCalls) = 1
  /\ run.handlerCalls[1].options["output"] = Str("out2")
  /\ run.pc = "done"

(***************************************************************************)
(* Number options                                                          *)
(***************************************************************************)
\* the number option port of the examples and a boolean option with a digit
\* as alias
Port == Opt("port", Str("p"), "number")
First == Opt("first", Str("1"), "boolean")

NumberSchemas == {<<Port>>, <<First, Port>>}
NumberTokens == {"--port", "--port=3000", "-p", "-1p", "3000"}
NumberArgvs ==
  {<<"node", "cli">> \o t : t \in SeqsUpTo(NumberTokens, MaxTokens)}

NextNumber ==
  \/ \E argv_ \in NumberArgvs, options_ \in NumberSchemas :
       ParseCall(argv_, options_)
  \/ ClearCache

SpecNumber == Init /\ [][NextNumber]_vars

\* C17: in the options parse returns, the value of a number option is never
\* a raw string: a value taken from a token is stored as the number the
\* token denotes.
C17_NumberOptionNeverRawString ==
  Returned_ =>
    \A k \in 1..Len(pOptions) :
      (pOptions[k].type = "number" /\ pOptions[k].name \in DOMAIN frame.options)
        => frame.options[pOptions[k].name].t # "string"

(***************************************************************************)
(* Direct use of the Value Coercer                                         *)
(***************************************************************************)
\* the choices an option declares: none, an empty list, the styles of greet
ChoiceLists == {Undefined, Arr(<<>>), Arr(<<"formal", "casual">>)}
OptionTypes == {"string", "number", "boolean", "array"}
CoercerOptions ==
  {[Opt("style", Undefined, type) EXCEPT !.choices = choices] :
     type \in OptionTypes, choices \in ChoiceLists}
CoercerValues ==
  {Bool(TRUE), Bool(FALSE)}
    \cup {Str(s) : s \in {"formal", "casual", "loud", "true", "1", "3000",
                          "a, b"}}

\* ZoltraCLIParser.parseOptionValue(value, option)
ParseOptionValueCall(value_, option_) ==
  /\ coerced' = [called |-> TRUE, value |-> value_, option |-> option_,
                 result |-> parseOptionValue(value_, option_)]
  /\ UNCHANGED <<vArgs, vParsed, vResult, vo, parserVars, builderVars>>

NextCoercer ==
  \E value_ \in CoercerValues, option_ \in CoercerOptions :
    ParseOptionValueCall(value_, option_)

SpecCoercer == Init /\ [][NextCoercer]_vars

\* a string option was handed a raw string
StringCoerced ==
  /\ coerced.called
  /\ coerced.option.type = "string"
  /\ coerced.value.t = "string"

\* the option declares a non-empty choices list without the value
OutsideChoices ==
  /\ coerced.option.choices # Undefined
  /\ coerced.option.choices.v # <<>>
  /\ \A k \in 1..Len(coerced.option.choices.v) :
       coerced.option.choices.v[k] # coerced.value.v

\* C18: for a string option and a raw string, the coercer fails with
\* 'must be one of' and the list of choices if and only if the option
\* declares a non-empty choices list that lacks the value; otherwise, also
\* with an empty choices list, it returns the value unchanged.
C18_ChoiceErrorIffOutsideNonEmptyChoices ==
  StringCoerced =>
    IF OutsideChoices
    THEN coerced.result.err =
           "Option " \o coerced.option.name \o " must be one of: "
             \o Join(coerced.option.choices.v, ", ")
    ELSE coerced.result = Returned(coerced.value)

(***************************************************************************)
(* Orderings of a combined short cluster                                   *)
(***************************************************************************)
ClusterSchemas == {<<Verbose, Quiet>>, <<First, Verbose, Quiet>>}
ClusterTokens == {"-vq", "-qv", "-1v", "-v1", "-1q", "-q1"}
ClusterArgvs == {<<"node", "cli", t>> : t \in ClusterTokens}

NextCluster ==
  \/ \E argv_ \in ClusterArgvs, options_ \in ClusterSchemas :
       ParseCall(argv_, options_)
  \/ ClearCache

SpecCluster == Init /\ [][NextCluster]_vars

\* a dash and then two or more distinct letters or digits, each the alias of
\* a boolean option of the schema
IsAliasCluster(token, options) ==
  /\ Len(token) >= 3
  /\ CharAt(token, 1) = "-"
  /\ \A k \in 2..Len(token) :
       /\ CharAt(token, k) \in Letters \cup Digits
       /\ \E o \in WithAlias(options, CharAt(token, k)) : o.type = "boolean"
  /\ \A j, k \in 2..Len(token) : CharAt(token, j) = CharAt(token, k) => j = k

\* the tokens with the same characters after the dash, in every order
Orderings(token) ==
  {"-" \o Join([k \in 1..(Len(token) - 1) |-> CharAt(token, 1 + p[k])], "") :
     p \in Permutations(1..(Len(token) - 1))}

\* C19: a call of parse on one cluster of aliases of boolean options returns
\* the options mapping that the same call returns on every other ordering
\* of the cluster's characters.
C19_ClusterOrderIrrelevant ==
  (Returned_ /\ Len(pTokens) = 1 /\ IsAliasCluster(pTokens[1], pOptions)) =>
    \A t \in Orderings(pTokens[1]) :
      /\ parse(<<"node", "cli", t>>, pOptions, cacheBefore).err = ""
      /\ parse(<<"node", "cli", t>>, pOptions, cacheBefore).options
           = frame.options

(***************************************************************************)
(* ZoltraCommandBuilder                                                    *)
(*                                                                         *)
(* builders[b] is one ZoltraCommandBuilder: cmd is its command record, via *)
(* the name of the command on whose builder command() created it ("" when  *)
(* ZoltraCLIBuilder.command created it). The parent of every builder is    *)
(* the ZoltraCLIBuilder itself.                                            *)
(***************************************************************************)
\* ZoltraCommandBuilder objects created in one behaviour
MaxBuilders == 3

\* the commands of the README's section on subcommands
NestedNames == {"deploy", "staging", "production"}
NestedArgvs ==
  {<<"node", "cli">> \o t : t \in SeqsUpTo(NestedNames, MaxArgv)}

\* new ZoltraCommandBuilder(parent, name, description)
NewBuilder(name, via) == [cmd |-> Cmd(name, <<>>, <<>>, <<>>), via |-> via]

\* ZoltraCLIBuilder.command(name, description)
CliCommand(name) ==
  /\ run.pc = "idle"
  /\ Len(builders) < MaxBuilders
  /\ builders' = Append(builders, NewBuilder(name, ""))
  /\ UNCHANGED <<globalOptions, commands, interactive, run, parserVars,
                 argVars>>

\* ZoltraCommandBuilder.command(name, description) on builders[b]
BuilderCommand(b, name) ==
  /\ run.pc = "idle"
  /\ Len(builders) < MaxBuilders
  /\ Len(commands) < MaxCommands
  /\ commands' = Append(commands, builders[b].cmd)
  /\ builders' = Append(builders, NewBuilder(name, builders[b].cmd.name))
  /\ UNCHANGED <<globalOptions, interactive, run, parserVars, argVars>>

\* ZoltraCommandBuilder.finalize() on builders[b]
BuilderFinalize(b) ==
  /\ run.pc = "idle"
  /\ Len(commands) < MaxCommands
  /\ commands' = Append(commands, builders[b].cmd)
  /\ UNCHANGED <<globalOptions, interactive, run, builders, parserVars,
                 argVars>>

NextNesting ==
  \/ \E name \in NestedNames : CliCommand(name)
  \/ \E b \in 1..Len(builders), name \in NestedNames : BuilderCommand(b, name)
  \/ \E b \in 1..Len(builders) : BuilderFinalize(b)
  \/ \E argv_ \in NestedArgvs : Parse(argv_)
  \/ HandlerReturns
  \/ HandlerThrows

SpecNesting == Init /\ [][NextNesting]_vars

\* child was declared through command() on the builder of parent
DeclaredUnder(child, parent) ==
  \E b \in 1..Len(builders) :
    builders[b].cmd.name = child /\ builders[b].via = parent

\* C20: when staging was declared through command() on the builder of
\* deploy, parse of [deploy, staging] invokes the handler of staging and not
\* the handler of deploy.
C20_SubcommandHandlerInvoked ==
  (/\ Started
   /\ bTokens = <<"deploy", "staging">>
   /\ DeclaredUnder("staging", "deploy")) =>
      /\ Len(run.handlerCalls) = 1
      /\ run.handlerCalls[1].command.name = "staging"

(***************************************************************************)
(* ZoltraCLIParser.parse, one iteration of its loop at a time              *)
(***************************************************************************)
\* tokens after "node cli" in a call whose loop is followed step by step
MaxStepTokens == 3

StepSchemas == {<<Verbose, Output>>}
StepTokens == {"build", "src", "--output", "-1", ""}
StepArgvs ==
  {<<"node", "cli">> \o t : t \in SeqsUpTo(StepTokens, MaxStepTokens)}

\* the loop of the last call has iterations left
InProgress == frame.err = "" /\ frame.i < Len(Slice2(pArgv))

\* parse(argv, options) up to the test of its while loop
ParseBegin(argv_, options_) ==
  /\ ~InProgress
  /\ pCalls < MaxCalls
  /\ pCalls' = pCalls + 1
  /\ pArgv' = argv_
  /\ pOptions' = options_
  /\ cacheBefore' = optionCache
  /\ frame' = ParseStart(argv_, options_, optionCache)
  /\ UNCHANGED <<optionCache, argVars, builderVars>>

\* one iteration of  while (i < tokens.length)
ParseIterate ==
  /\ InProgress
  /\ frame' = ParseStep(frame, Slice2(pArgv), pOptions)
  /\ optionCache' = frame'.cache
  /\ UNCHANGED <<pCalls, pArgv, pOptions, cacheBefore, argVars, builderVars>>

NextSteps ==
  \/ \E argv_ \in StepArgvs, options_ \in StepSchemas :
       ParseBegin(argv_, options_)
  \/ ParseIterate

SpecSteps == Init /\ [][NextSteps]_vars

\* the 1-based positions of the tokens classified by the plain branch so far
PlainClassified ==
  {k \in 1..Len(pTokens) :
     frame.kinds[k] \cap {"command", "positional"} # {}}

\* the tokens at the positions of S, in token order
RECURSIVE TokensAt(_)
TokensAt(S) ==
  IF S = {} THEN <<>>
  ELSE LET k == CHOOSE j \in S : \A m \in S : j <= m
       IN  <<pTokens[k]>> \o TokensAt(S \ {k})

\* C21: in every state of parse the command path holds at most one segment
\* and the positional list is non-empty only if a command segment is
\* recorded; the first plain token classified is the command, and the plain
\* tokens classified after it are the positional list, in token order.
C21_FirstPlainTokenIsCommand ==
  Called =>
    /\ Len(frame.command) <= 1
    /\ Len(frame.args) > 0 => Len(frame.command) = 1
    /\ frame.command \o frame.args = TokensAt(PlainClassified)
    /\ \A k \in PlainClassified :
         "command" \in frame.kinds[k] <=> \A m \in PlainClassified : k <= m

\* parse is between two iterations, the command and a positional are
\* recorded, and the positional precedes an option flag
C21_Witness ==
  /\ InProgress
  /\ Len(frame.command) = 1
  /\ \E k \in 1..(Len(pTokens) - 1) :
       /\ "positional" \in frame.kinds[k]
       /\ isOption(pTokens[k + 1])

\* C22: parse passes over no token: when it returns, every non-empty token
\* of the input was matched as a flag or a short cluster, taken as the value
\* of an option token, or recorded as the command segment or a positional.
C22_NoTokenSkipped ==
  (Returned_ /\ ~InProgress) =>
    \A k \in 1..Len(pTokens) : pTokens[k] # "" => frame.kinds[k] # {}

(***************************************************************************)
(* The positionals of the default command                                  *)
(***************************************************************************)
\* the tokens that are neither empty nor dash tokens, in order
PlainTokensOf(tokens) ==
  SelectSeq(tokens, LAMBDA t : t # "" /\ ~StartsWith(t, "-"))

\* C23: when parse invokes the handler of the default (empty-name) command,
\* the positional list it hands over holds every plain token of the input,
\* in order.
C23_DefaultReceivesEveryPlainToken ==
  \A k \in 1..Len(run.handlerCalls) :
    run.handlerCalls[k].command.name = "" =>
      run.handlerCalls[k].args = PlainTokensOf(bTokens)

(***************************************************************************)
(* The cache within one invocation of ZoltraCLIBuilder.parse               *)
(***************************************************************************)
\* flags of global and of command options, an undeclared flag whose name is
\* the prefix of the alias keys, and a single-character cluster
CacheTokens == {"build", "--output=out2", "--name=Ada", "--alias", "-3"}
CacheArgvs == {<<"node", "cli">> \o t : t \in SeqsUpTo(CacheTokens, MaxArgv)}

NextCache ==
  \/ \E option \in GlobalOptionChoices : Option(option)
  \/ \E command \in CommandChoices : AddCommand(command)
  \/ Action
  \/ \E argv_ \in CacheArgvs : Parse(argv_)

SpecCache == Init /\ [][NextCache]_vars

\* the lookups of the invocation made by the global-only parse and by the
\* re-parse
LookupsOfPass(pass) ==
  {k \in 1..Len(run.lookups) : run.lookups[k].pass = pass}

\* the lookup was made by the option branch: its key is a name key
IsNameLookup(l) ==
  \E k \in 1..Len(bTokens) :
    /\ isOption(bTokens[k])
    /\ l.key = NameKey(parseOption(bTokens[k], bTokens, k - 1).name, l.schema)

\* the lookup was made by the cluster branch: its key is an alias key
IsAliasLookup(l) ==
  \E k \in 1..Len(bTokens) :
    /\ ~isOption(bTokens[k])
    /\ StartsWith(bTokens[k], "-")
    /\ \E c \in 2..Len(bTokens[k]) :
         l.key = AliasKey(CharAt(bTokens[k], c), l.schema)

\* C24: starting from an empty cache, within one invocation of
\* ZoltraCLIBuilder.parse every lookup of the global-only parse and of the
\* re-parse returns what a linear scan of the schema of that parse returns;
\* the re-parse finds an entry that the global-only parse cached only when
\* the two schemas have the same length, and then they are the same schema;
\* and no key is both the key of a name lookup and of an alias lookup.
C24_InvocationResolvesAsUncachedScan ==
  Started =>
    /\ \A k \in 1..Len(run.lookups) :
         /\ run.lookups[k].got = run.lookups[k].scan
         /\ IsNameLookup(run.lookups[k]) # IsAliasLookup(run.lookups[k])
    /\ \A j \in LookupsOfPass(1), k \in LookupsOfPass(2) :
         run.lookups[j].key = run.lookups[k].key =>
           /\ run.lookups[k].hit
           /\ Len(run.lookups[j].schema) = Len(run.lookups[k].schema)
           /\ run.lookups[j].schema = run.lookups[k].schema
    /\ \A k \in LookupsOfPass(2) :
         run.lookups[k].hit =>
           \E j \in 1..(k - 1) : run.lookups[j].key = run.lookups[k].key

\* the re-parse for the default command, whose schema is the global schema,
\* found the entry under which the global-only parse cached the option name
C24_Witness ==
  /\ run.pc = "handler"
  /\ \E j \in LookupsOfPass(1), k \in LookupsOfPass(2) :
       /\ run.lookups[j].key = run.lookups[k].key
       /\ ~run.lookups[j].hit
       /\ run.lookups[k].hit
       /\ run.lookups[k].got # Null
  /\ \E k \in 1..Len(run.lookups) : IsAliasLookup(run.lookups[k])

====
